---- MODULE Spec2Model ----
(***************************************************************************)
(* The per-chat reminder / daily-summary scheduling of claudia.py over the *)
(* TaskStorage of storage.py: the task store (in memory and on disk), the  *)
(* job queue, the two registries reminder_jobs and daily_summary_jobs, the *)
(* timer callbacks and the startup scan of main().                         *)
(***************************************************************************)
EXTENDS Integers, Sequences, FiniteSets, Bags, TLC

\* ------------------------------------------------------------------ bounds
NumChats == 1      \* chat ids 1..NumChats
MaxIds   == 2      \* task ids ever handed out by add_task
MaxTime  == 1      \* the clock runs 0..MaxTime
MaxLoose == 1      \* live jobs that no registry entry refers to
NumScan  == 2      \* chats whose files the startup scan meets (SpecScan)

TaskIds == 1..MaxIds

\* Python's None, and the value datetime.now().isoformat() writes
None  == "None"
Stamp == "ts"

\* remind_at strings: two ISO timestamps and one that fromisoformat rejects
IsoVals    == {"T1", "T2"}
RemindVals == IsoVals \cup {"bad"}

\* daily_summary_time strings. "25:00" splits into two integers and is
\* rejected only by datetime.time(); "0930" does not split.
SummaryVals == {"09:30", "18:00", "9:3", "25:00", "0930"}

\* Python truthiness of an optional string
Truthy(v) == v # None /\ v # ""

\* datetime.fromisoformat: the instant of an ISO string (IsIso: no ValueError).
\* "T1" is the instant the clock starts at, "T2" one tick later.
IsIso(s) == s \in IsoVals
fromisoformat(s) == IF s = "T1" THEN 0 ELSE 1

VARIABLES
    alive,               \* the process is running (main() did not raise)
    storages,            \* bot_data["storages"]: chats with a TaskStorage
    sessions,            \* bot_data["sessions"]: each chat's ChatSession lock
    tasks,               \* TaskStorage.tasks of each chat
    settings,            \* TaskStorage.settings.get("daily_summary_time")
    files,               \* chats whose tasks_<chat>.json exists
    disk,                \* content of tasks_<chat>.json
    diskSettings,        \* daily_summary_time in settings_<chat>.json
    nextId,              \* next fresh task id (uuid4)
    reminder_jobs,       \* bot_data["reminder_jobs"]: (chat, task) -> job
    daily_summary_jobs,  \* bot_data["daily_summary_jobs"]: chat -> job
    loose,               \* jobs queued or running that no registry entry holds
    now,                 \* the clock
    sent,                \* the (task, remind_at) a reminder was delivered for
    lastOp               \* the operation that produced this state

vars == <<alive, storages, sessions, tasks, settings, files, disk, diskSettings, nextId,
          reminder_jobs, daily_summary_jobs, loose, now, sent, lastOp>>

store == <<tasks, settings, files, disk, diskSettings, nextId>>
registry == <<reminder_jobs, daily_summary_jobs, loose>>

Chats == DOMAIN tasks

\* ------------------------------------------------------------- operations log
\* lastOp: the kind of step that led here ("store" for every TaskStorage call);
\* for a fire or a resume the task and remind_at of the job and, for a fire,
\* whether it delivered; for a reconcile the keys it armed a job for and those
\* whose queued job it cancelled (<<chat, 0>> stands for the chat's daily job);
\* for a call of the set_daily_summary tool its argument and whether it said ok.
Op(name, c) ==
    [op |-> name, chat |-> c, task |-> 0, value |-> None, delivered |-> FALSE,
     twice |-> FALSE, raised |-> FALSE, again |-> FALSE, armed |-> {}, cancelled |-> {},
     input |-> <<>>, ok |-> FALSE, lines |-> <<>>, scanned |-> <<>>]

\* ------------------------------------------------------------------ job queue
\* A job is armed (in the queue), running (its callback is suspended at an
\* await), done (it has run) or removed (schedule_removal took it out).
Live(job) == job.st \in {"armed", "running"}

\* schedule_removal() that leaves the job in the queue
schedule_nothing(job) == job

\* Job.schedule_removal(): an armed job leaves the queue; a callback that is
\* already running is not interrupted; a job that has run stays as it is.
schedule_removal(job) ==
    IF job.st = "armed" THEN [job EXCEPT !.st = "removed", !.when = 0] ELSE job

\* The end of a callback of a run_once job: the queue has dropped the job.
finished(job) == [job EXCEPT !.st = "done", !.when = 0]

\* A job the registry lets go of stays in the queue or the event loop if live.
Detach(job, L) == IF Live(job) THEN L (+) SetToBag({job}) ELSE L

Without(f, k) == [x \in DOMAIN f \ {k} |-> f[x]]
EmptyMap == [x \in {} |-> 0]

\* ------------------------------------------------------------- TaskStorage
Index(ts, id) ==
    IF \E i \in 1..Len(ts) : ts[i].id = id
    THEN CHOOSE i \in 1..Len(ts) : ts[i].id = id /\ \A k \in 1..(i-1) : ts[k].id # id
    ELSE 0

Remove(ts, i) == [k \in 1..(Len(ts)-1) |-> IF k < i THEN ts[k] ELSE ts[k+1]]

\* A mutation that leaves the write of the file for later
save_later(c) ==
    UNCHANGED <<disk, files>>

\* TaskStorage.save: the whole list goes to tasks_<chat>.json
save(c) ==
    /\ disk' = [disk EXCEPT ![c] = tasks'[c]]
    /\ files' = files \cup {c}

new_task(id, remind_at) ==
    [id |-> id, priority |-> "medium", status |-> "pending",
     remind_at |-> remind_at, reminded_at |-> None]

\* mark_reminded that also takes the reminder off the task
mark_and_clear(ts, id) ==
    LET i == Index(ts, id)
    IN IF i = 0 THEN ts ELSE [ts EXCEPT ![i].reminded_at = Stamp, ![i].remind_at = None]

\* mark_reminded that writes nothing
mark_nothing(ts, id) == ts

mark_reminded(ts, id) ==
    LET i == Index(ts, id)
    IN IF i = 0 THEN ts ELSE [ts EXCEPT ![i].reminded_at = Stamp]

set_reminder_task(t, remind_at) ==
    [t EXCEPT !.remind_at = remind_at, !.reminded_at = None]

clear_task(t) ==
    IF Truthy(t.remind_at) \/ Truthy(t.reminded_at)
    THEN [t EXCEPT !.remind_at = None, !.reminded_at = None]
    ELSE t

\* -------------------------------------------------- schedule_pending_reminders
\* The loop without the try around fromisoformat
SchedulableUnparsed(task) ==
    /\ Truthy(task.remind_at)
    /\ ~Truthy(task.reminded_at)
    /\ task.status # "completed"

\* The tasks the loop does not skip: remind_at set, not reminded, not completed,
\* and a remind_at that fromisoformat accepts.
Schedulable(task) ==
    /\ Truthy(task.remind_at)
    /\ ~Truthy(task.reminded_at)
    /\ task.status # "completed"
    /\ IsIso(task.remind_at)

\* delay = (remind_time - now).total_seconds(), not clamped
DelayUnclamped(remind_time, t) == remind_time - t

\* delay = (remind_time - now).total_seconds(), clamped at 0
Delay(remind_time, t) == IF remind_time - t < 0 THEN 0 ELSE remind_time - t

\* existing compared with the wrong field of the job's data
SameReminderKind(rj, key, remind_at) ==
    key \in DOMAIN rj /\ rj[key].kind = remind_at

\* existing and existing.data.get("remind_at") == remind_at
SameReminder(rj, key, remind_at) ==
    key \in DOMAIN rj /\ rj[key].remind_at = remind_at

\* job_queue.run_once(reminder_callback, when=delay, data={...})
run_once(c, id, remind_at, delay) ==
    [kind |-> "reminder", chat_id |-> c, task_id |-> id, remind_at |-> remind_at,
     when |-> delay, time |-> <<>>, st |-> "armed"]

\* One task of the loop that was not skipped: keep, or cancel and arm.
arm_reminder(c, task, S) ==
    LET key == <<c, task.id>>
        delay == Delay(fromisoformat(task.remind_at), now)
    IN IF SameReminder(S.rj, key, task.remind_at) THEN S
       ELSE [S EXCEPT
               !.loose = IF key \in DOMAIN S.rj
                         THEN Detach(schedule_removal(S.rj[key]), @) ELSE @,
               !.cancelled = IF key \in DOMAIN S.rj /\ S.rj[key].st = "armed"
                             THEN @ \cup {key} ELSE @,
               !.rj = (key :> run_once(c, task.id, task.remind_at, delay)) @@ @,
               !.armed = @ \cup {key}]

RECURSIVE pending_loop(_, _, _, _)
pending_loop(c, ts, i, S) ==
    IF i > Len(ts) THEN S
    ELSE IF Schedulable(ts[i])
         THEN pending_loop(c, ts, i + 1, arm_reminder(c, ts[i], S))
         ELSE pending_loop(c, ts, i + 1, S)

schedule_pending_reminders(c, ts, S) == pending_loop(c, ts, 1, S)

\* ------------------------------------------------------ schedule_daily_summary
\* hour, minute = map(int, time_str.split(":")): ValueError unless two integers
SplitsHM(s) == s \in {"09:30", "18:00", "9:3", "25:00"}
HM(s) == CASE s = "09:30" -> <<9, 30>>
           [] s = "18:00" -> <<18, 0>>
           [] s = "9:3"   -> <<9, 3>>
           [] OTHER       -> <<25, 0>>

\* datetime.time(hour=, minute=) raises ValueError out of range
TimeOk(hm) == hm[1] \in 0..23 /\ hm[2] \in 0..59

run_daily(c, hm) ==
    [kind |-> "daily", chat_id |-> c, task_id |-> 0, remind_at |-> None,
     when |-> 0, time |-> hm, st |-> "armed"]

\* Every chat's job is popped with the chat's own
drop_daily_all(c, S) ==
    IF c \in DOMAIN S.dj
    THEN [S EXCEPT !.loose = Detach(schedule_removal(S.dj[c]), @),
                   !.cancelled = IF S.dj[c].st = "armed" THEN @ \cup {<<c, 0>>} ELSE @,
                   !.dj = EmptyMap]
    ELSE S

\* The existing job is neither cancelled nor popped
drop_daily_keep(c, S) == S

\* existing.schedule_removal(); jobs.pop(chat_id, None)
drop_daily(c, S) ==
    IF c \in DOMAIN S.dj
    THEN [S EXCEPT !.loose = Detach(schedule_removal(S.dj[c]), @),
                   !.cancelled = IF S.dj[c].st = "armed" THEN @ \cup {<<c, 0>>} ELSE @,
                   !.dj = Without(@, c)]
    ELSE S

schedule_daily_summary(c, time_str, S) ==
    IF ~Truthy(time_str) THEN drop_daily(c, S)
    ELSE IF ~SplitsHM(time_str) THEN S
    ELSE LET D == drop_daily(c, S)
         IN IF ~TimeOk(HM(time_str)) THEN [D EXCEPT !.raised = TRUE]
            ELSE [D EXCEPT !.dj = (c :> run_daily(c, HM(time_str))) @@ @]

\* handle_message lines 343-344 and main lines 384-385: both reconciles of a chat
reconcile_chat(c, ts, time_str, S) ==
    schedule_daily_summary(c, time_str, schedule_pending_reminders(c, ts, S))

Registry(rj, dj, L) ==
    [rj |-> rj, dj |-> dj, loose |-> L, raised |-> FALSE, armed |-> {}, cancelled |-> {},
     scanned |-> <<>>]

\* ChatSession.__init__: a free asyncio.Lock; waiting and asking count the
\* handle_message coroutines blocked at the lock and inside its section.
ChatSession == [locked |-> FALSE, waiting |-> 0, asking |-> 0]

\* ------------------------------------------------------------------------ Init
\* A first start in an empty directory: main() finds no tasks_*.json.
InitOver(CS) ==
    /\ alive = TRUE
    /\ storages = {}
    /\ sessions = [c \in CS |-> ChatSession]
    /\ tasks = [c \in CS |-> <<>>]
    /\ settings = [c \in CS |-> None]
    /\ files = {}
    /\ disk = [c \in CS |-> <<>>]
    /\ diskSettings = [c \in CS |-> None]
    /\ nextId = 1
    /\ reminder_jobs = EmptyMap
    /\ daily_summary_jobs = EmptyMap
    /\ loose = EmptyBag
    /\ now = 0
    /\ sent = {}
    /\ lastOp = Op("init", 0)

Init == InitOver(1..NumChats)

\* --------------------------------------------------------- the task store
\* get_chat_state: the first message of a chat builds its TaskStorage, which
\* loads tasks_<chat>.json and settings_<chat>.json.
get_chat_state(c) ==
    /\ alive /\ c \notin storages
    /\ storages' = storages \cup {c}
    /\ tasks' = [tasks EXCEPT ![c] = IF c \in files THEN disk[c] ELSE <<>>]
    /\ settings' = [settings EXCEPT ![c] = diskSettings[c]]
    /\ lastOp' = Op("load", c)
    /\ UNCHANGED <<alive, sessions, files, disk, diskSettings, nextId, registry, now, sent>>

add_task(c, remind_at) ==
    /\ alive /\ c \in storages /\ nextId <= MaxIds
    /\ tasks' = [tasks EXCEPT ![c] = Append(@, new_task(nextId, remind_at))]
    /\ save(c)
    /\ nextId' = nextId + 1
    /\ lastOp' = Op("store", c)
    /\ UNCHANGED <<alive, sessions, storages, settings, diskSettings, registry, now, sent>>

complete_task(c, id) ==
    /\ alive /\ c \in storages /\ Index(tasks[c], id) # 0
    /\ tasks' = [tasks EXCEPT ![c][Index(tasks[c], id)].status = "completed"]
    /\ save(c)
    /\ lastOp' = Op("store", c)
    /\ UNCHANGED <<alive, sessions, storages, settings, diskSettings, nextId, registry, now, sent>>

set_reminder(c, id, remind_at) ==
    /\ alive /\ c \in storages /\ Index(tasks[c], id) # 0
    /\ tasks' = [tasks EXCEPT ![c][Index(tasks[c], id)] = set_reminder_task(@, remind_at)]
    /\ save(c)
    /\ lastOp' = Op("store", c)
    /\ UNCHANGED <<alive, sessions, storages, settings, diskSettings, nextId, registry, now, sent>>

clear_reminders(c) ==
    /\ alive /\ c \in storages
    /\ tasks' = [tasks EXCEPT ![c] = [i \in 1..Len(@) |-> clear_task(@[i])]]
    /\ IF tasks'[c] # tasks[c] THEN save(c) ELSE UNCHANGED <<disk, files>>
    /\ lastOp' = Op("store", c)
    /\ UNCHANGED <<alive, sessions, storages, settings, diskSettings, nextId, registry, now, sent>>

delete_task(c, id) ==
    /\ alive /\ c \in storages /\ Index(tasks[c], id) # 0
    /\ tasks' = [tasks EXCEPT ![c] = Remove(@, Index(tasks[c], id))]
    /\ save(c)
    /\ lastOp' = Op("store", c)
    /\ UNCHANGED <<alive, sessions, storages, settings, diskSettings, nextId, registry, now, sent>>

\* set_daily_summary_time followed by save_settings
set_daily_summary_time(c, value) ==
    /\ alive /\ c \in storages
    /\ settings' = [settings EXCEPT ![c] = IF Truthy(value) THEN value ELSE None]
    /\ diskSettings' = [diskSettings EXCEPT ![c] = settings'[c]]
    /\ lastOp' = Op("store", c)
    /\ UNCHANGED <<alive, sessions, storages, tasks, files, disk, nextId, registry, now, sent>>

\* ------------------------------------------------- the set_daily_summary tool
\* The tool's argument is a Python string, here the sequence of its characters.
Digits == {"0", "1", "2", "3", "4", "5", "6", "7", "8", "9"}
DigitOf(ch) == CHOOSE n \in 0..9 : <<"0", "1", "2", "3", "4", "5", "6", "7", "8", "9">>[n + 1] = ch
CharOf(n) == <<"0", "1", "2", "3", "4", "5", "6", "7", "8", "9">>[n + 1]

ToolInputs ==
    { <<"0", "9", ":", "3", "0">>, <<"1", "8", ":", "0", "0">>,
      <<"2", "5", ":", "0", "0">>, <<"9", ":", "3">>, <<"0", "9", "3", "0">>,
      <<" ", "0", "9", ":", "3", "0">>,
      <<"o", "f", "f">>, <<"O", "F", "F">>, <<"n", "o", "n", "e">>,
      <<"d", "i", "s", "a", "b", "l", "e">>, <<"d", "i", "s", "a", "b", "l", "e", "d">>,
      <<"\\", "d", "d", ":", "\\", "d", "d">>, <<"l", "a", "t", "e", "r">>, <<>> }

\* str.strip() and str.lower(), for the characters of ToolInputs
RECURSIVE lstrip(_)
lstrip(s) == IF s # <<>> /\ Head(s) = " " THEN lstrip(Tail(s)) ELSE s
RECURSIVE rstrip(_)
rstrip(s) == IF s # <<>> /\ s[Len(s)] = " " THEN rstrip(SubSeq(s, 1, Len(s) - 1)) ELSE s
strip(s) == rstrip(lstrip(s))
lower(s) == [i \in 1..Len(s) |->
               CASE s[i] = "O" -> "o" [] s[i] = "F" -> "f" [] OTHER -> s[i]]

OffWords ==
    { <<"o", "f", "f">>, <<"d", "i", "s", "a", "b", "l", "e">>,
      <<"d", "i", "s", "a", "b", "l", "e", "d">>, <<"n", "o", "n", "e">> }

\* re.match(r"^\\d{2}:\\d{2}$", value): in a raw string the two backslashes are
\* the regex for one literal backslash, and d{2} is the letter d twice
re_match(value) == value = <<"\\", "d", "d", ":", "\\", "d", "d">>

\* value.split(":")
RECURSIVE split(_, _)
split(s, part) ==
    IF s = <<>> THEN <<part>>
    ELSE IF Head(s) = ":" THEN <<part>> \o split(Tail(s), <<>>)
    ELSE split(Tail(s), Append(part, Head(s)))

\* int(): ValueError unless the characters are digits
IsInt(s) == s # <<>> /\ \A i \in 1..Len(s) : s[i] \in Digits
RECURSIVE int(_)
int(s) == IF s = <<>> THEN 0 ELSE 10 * int(SubSeq(s, 1, Len(s) - 1)) + DigitOf(s[Len(s)])

\* f"{hour:02d}:{minute:02d}"
format(hour, minute) ==
    <<CharOf(hour \div 10), CharOf(hour % 10), ":", CharOf(minute \div 10), CharOf(minute % 10)>>

\* The Python string of a sequence of characters, for the times the model stores
Text(s) ==
    CASE s = <<"0", "9", ":", "3", "0">> -> "09:30"
      [] s = <<"1", "8", ":", "0", "0">> -> "18:00"
      [] s = <<"2", "5", ":", "0", "0">> -> "25:00"
      [] s = <<"9", ":", "3">>           -> "9:3"
      [] s = <<"0", "9", "3", "0">>      -> "0930"
      [] OTHER                           -> "other"

\* What the tool does with its argument: its answer, and whether and with what
\* it calls storage.set_daily_summary_time
ToolAnswer(ok, raised, stores, time) ==
    [ok |-> ok, raised |-> raised, stores |-> stores, time |-> time]

tool_set_daily_summary(input) ==
    LET value == lower(strip(input))
        parts == split(value, <<>>)
    IN IF value = <<>> THEN ToolAnswer(FALSE, FALSE, FALSE, None)
       ELSE IF value \in OffWords THEN ToolAnswer(TRUE, FALSE, TRUE, None)
       ELSE IF ~re_match(value) THEN ToolAnswer(FALSE, FALSE, FALSE, None)
       ELSE IF Len(parts) # 2 \/ ~IsInt(parts[1]) \/ ~IsInt(parts[2])
            THEN ToolAnswer(FALSE, TRUE, FALSE, None)
       ELSE IF int(parts[1]) > 23 \/ int(parts[2]) > 59
            THEN ToolAnswer(FALSE, FALSE, FALSE, None)
       ELSE ToolAnswer(TRUE, FALSE, TRUE, Text(format(int(parts[1]), int(parts[2]))))

set_daily_summary(c, input) ==
    /\ alive /\ c \in storages
    /\ LET R == tool_set_daily_summary(input)
       IN /\ settings' = IF R.stores THEN [settings EXCEPT ![c] = R.time] ELSE settings
          /\ diskSettings' = IF R.stores THEN [diskSettings EXCEPT ![c] = R.time]
                             ELSE diskSettings
          /\ lastOp' = [Op("tool", c) EXCEPT !.input = input, !.ok = R.ok,
                                             !.raised = R.raised]
    /\ UNCHANGED <<alive, sessions, storages, tasks, files, disk, nextId, registry, now, sent>>

\* ------------------------------------------------------------- the reconcile
\* handle_message after the turn: schedule_pending_reminders, then
\* schedule_daily_summary, with no await in between.
Reconciled(c) ==
    /\ alive /\ c \in storages
    /\ LET S == reconcile_chat(c, tasks[c], settings[c],
                               Registry(reminder_jobs, daily_summary_jobs, loose))
       IN /\ BagCardinality(S.loose) <= MaxLoose
          /\ reminder_jobs' = S.rj
          /\ daily_summary_jobs' = S.dj
          /\ loose' = S.loose
          /\ lastOp' = [Op("reconcile", c) EXCEPT
                          !.raised = S.raised,
                          !.armed = S.armed,
                          !.cancelled = S.cancelled,
                          !.again = (lastOp.op = "reconcile" /\ lastOp.chat = c)]
    /\ UNCHANGED <<alive, storages, store, now, sent>>

\* A reconcile seen on its own, whichever turn it ends
Reconcile(c) ==
    Reconciled(c) /\ UNCHANGED sessions

\* ------------------------------------------------------------------ the turns
\* Handlers of one chat in flight at most
MaxTurns == 2

\* async with self._lock, without the lock
acquire_unlocked(s) ==
    [s EXCEPT !.asking = @ + 1]

\* async with self._lock (ask, line 111): enter when the lock is free, wait
\* otherwise
acquire(s) ==
    IF s.locked
    THEN [s EXCEPT !.waiting = @ + 1]
    ELSE [s EXCEPT !.locked = TRUE, !.asking = @ + 1]

\* The end of the async with block: asyncio.Lock.release wakes the first
\* waiter, which then holds the lock.
release(s) ==
    IF s.waiting > 0
    THEN [s EXCEPT !.waiting = @ - 1]
    ELSE [s EXCEPT !.locked = FALSE, !.asking = @ - 1]

\* Some handler of the chat is between query and the end of receive_response,
\* where the engine calls the task tools.
InTurn(c) == sessions[c].asking > 0

\* handle_message up to session.ask: the handler reaches the lock. Handlers
\* of one chat are allowed to overlap, as with concurrent updates.
StartTurn(c) ==
    /\ alive /\ c \in storages
    /\ sessions[c].waiting + sessions[c].asking < MaxTurns
    /\ sessions' = [sessions EXCEPT ![c] = acquire(@)]
    /\ lastOp' = Op("ask", c)
    /\ UNCHANGED <<alive, storages, store, registry, now, sent>>

\* ask returns and handle_message reconciles (lines 339-344): no await lies
\* between the release of the lock and the two schedule calls.
EndTurn(c) ==
    /\ InTurn(c)
    /\ sessions' = [sessions EXCEPT ![c] = release(@)]
    /\ Reconciled(c)

\* ------------------------------------------------------------------ the timers
Nearer(job) ==
    IF job.st = "armed" /\ job.when > 0 THEN [job EXCEPT !.when = @ - 1] ELSE job

\* One unit of time passes: every queued run_once job is one unit nearer.
Tick ==
    /\ now < MaxTime
    /\ now' = now + 1
    /\ reminder_jobs' = [k \in DOMAIN reminder_jobs |-> Nearer(reminder_jobs[k])]
    /\ loose' = BagOfAll(Nearer, loose)
    /\ lastOp' = Op("tick", 0)
    /\ UNCHANGED <<alive, sessions, storages, store, daily_summary_jobs, sent>>

\* The reminder jobs there are: those reminder_jobs holds and the loose ones.
Refs ==
    {[job |-> reminder_jobs[k], reg |-> TRUE] : k \in DOMAIN reminder_jobs}
    \cup {[job |-> j, reg |-> FALSE] : j \in {x \in BagToSet(loose) : x.kind = "reminder"}}

Key(job) == <<job.chat_id, job.task_id>>

\* reminder_callback with the status test left out
StaleButStatus(ts, d) ==
    LET i == Index(ts, d.task_id)
    IN \/ i = 0
       \/ Truthy(ts[i].reminded_at)
       \/ ts[i].remind_at # d.remind_at

\* reminder_callback with the comparison of remind_at left out
StaleButValue(ts, d) ==
    LET i == Index(ts, d.task_id)
    IN \/ i = 0
       \/ Truthy(ts[i].reminded_at)
       \/ ts[i].status = "completed"

\* reminder_callback lines 76-82: the fire delivers nothing
Stale(ts, d) ==
    LET i == Index(ts, d.task_id)
    IN \/ i = 0
       \/ Truthy(ts[i].reminded_at)
       \/ ts[i].status = "completed"
       \/ ts[i].remind_at # d.remind_at

\* The job of ref goes on as new.
Put(ref, new) ==
    IF ref.reg
    THEN /\ reminder_jobs' = [reminder_jobs EXCEPT ![Key(ref.job)] = new]
         /\ UNCHANGED loose
    ELSE /\ loose' = Detach(new, loose (-) SetToBag({ref.job}))
         /\ UNCHANGED reminder_jobs

\* reminder_callback up to its await: re-validation, then send_message
\* (track: the delivery is remembered in sent)
FireReminder(ref, track) ==
    /\ alive /\ ref.job.st = "armed" /\ ref.job.when = 0
    /\ LET d == ref.job
       IN IF d.chat_id \notin storages \/ Stale(tasks[d.chat_id], d)
          THEN /\ Put(ref, finished(d))
               /\ lastOp' = [Op("fire", d.chat_id) EXCEPT
                               !.task = d.task_id, !.value = d.remind_at]
               /\ UNCHANGED sent
          ELSE /\ sent' = IF track THEN sent \cup {<<d.task_id, d.remind_at>>} ELSE sent
               /\ Put(ref, [d EXCEPT !.st = "running"])
               /\ lastOp' = [Op("fire", d.chat_id) EXCEPT
                               !.task = d.task_id, !.value = d.remind_at,
                               !.delivered = TRUE,
                               !.twice = (<<d.task_id, d.remind_at>> \in sent)]
    /\ UNCHANGED <<alive, sessions, storages, store, daily_summary_jobs, now>>

\* reminder_callback after the await: mark_reminded, then pop the registry key
ResumeReminder(ref) ==
    /\ alive /\ ref.job.st = "running"
    /\ LET d == ref.job
           c == d.chat_id
           key == Key(d)
           others == IF ref.reg THEN loose ELSE loose (-) SetToBag({d})
       IN /\ tasks' = [tasks EXCEPT ![c] = mark_reminded(@, d.task_id)]
          /\ IF Index(tasks[c], d.task_id) # 0 THEN save(c) ELSE UNCHANGED <<disk, files>>
          /\ reminder_jobs' = Without(reminder_jobs, key)
          /\ loose' = IF ~ref.reg /\ key \in DOMAIN reminder_jobs
                      THEN Detach(reminder_jobs[key], others) ELSE others
          /\ BagCardinality(loose') <= MaxLoose
          /\ lastOp' = [Op("resume", c) EXCEPT !.task = d.task_id, !.value = d.remind_at]
    /\ UNCHANGED <<alive, sessions, storages, settings, diskSettings, nextId,
                   daily_summary_jobs, now, sent>>

\* reminder_callback when send_message raises: the exception leaves the
\* callback, lines 85-90 do not run; the job queue has dropped the job.
SendFails(ref) ==
    /\ alive /\ ref.job.st = "armed" /\ ref.job.when = 0
    /\ ref.job.chat_id \in storages
    /\ ~Stale(tasks[ref.job.chat_id], ref.job)
    /\ Put(ref, finished(ref.job))
    /\ lastOp' = [Op("send_failed", ref.job.chat_id) EXCEPT
                    !.task = ref.job.task_id, !.value = ref.job.remind_at]
    /\ UNCHANGED <<alive, sessions, storages, store, daily_summary_jobs, now, sent>>

\* reminder_callback when the save() of mark_reminded raises: reminded_at is
\* set in memory, the file is not written, lines 87-90 do not run.
SaveFails(ref) ==
    /\ alive /\ ref.job.st = "running"
    /\ Index(tasks[ref.job.chat_id], ref.job.task_id) # 0
    /\ tasks' = [tasks EXCEPT ![ref.job.chat_id] = mark_reminded(@, ref.job.task_id)]
    /\ Put(ref, finished(ref.job))
    /\ lastOp' = [Op("save_failed", ref.job.chat_id) EXCEPT
                    !.task = ref.job.task_id, !.value = ref.job.remind_at]
    /\ UNCHANGED <<alive, sessions, storages, settings, files, disk, diskSettings, nextId,
                   daily_summary_jobs, now, sent>>

\* priority_order.get(task.get("priority"), 1)
priority_order(p) == CASE p = "high" -> 0 [] p = "low" -> 2 [] OTHER -> 1

\* priority_labels.get(task.get("priority"), "MED")
priority_labels(p) == CASE p = "high" -> "HIGH" [] p = "low" -> "LOW" [] OTHER -> "MED"

\* pending = [t for t in storage.tasks if t.get("status") == "pending"]
pending(ts) == SelectSeq(ts, LAMBDA t : t.status = "pending")

Ranked(ts, r) == SelectSeq(ts, LAMBDA t : priority_order(t.priority) = r)

\* The pending tasks in the order of the list
unsorted(ts) == ts

\* sorted(pending, key=priority_order...): stable, so each rank keeps list order
sorted(ts) == Ranked(ts, 0) \o Ranked(ts, 1) \o Ranked(ts, 2)

\* lines: the two counts of the header, then one line per pending task with
\* its label and its title (the task stands for its title).
summary_lines(ts) ==
    LET p == pending(ts)
        s == sorted(p)
    IN <<<<"Pending", Len(p)>>, <<"High", Len(Ranked(p, 0))>>>>
       \o [i \in 1..Len(s) |-> <<priority_labels(s[i].priority), s[i].id>>]

\* daily_summary_callback as a run-once job that leaves the registry
FireDailyOnce(c) ==
    /\ alive /\ c \in DOMAIN daily_summary_jobs
    /\ daily_summary_jobs[c].st = "armed"
    /\ daily_summary_jobs' = Without(daily_summary_jobs, c)
    /\ lastOp' = [Op("daily_summary", c) EXCEPT
                    !.delivered = (c \in storages),
                    !.lines = IF c \in storages THEN summary_lines(tasks[c]) ELSE <<>>]
    /\ UNCHANGED <<alive, sessions, storages, store, reminder_jobs, loose, now, sent>>

\* daily_summary_callback: recurring (run_daily), returns when the chat has no
\* storage, else reads the tasks and sends the lines; changes nothing
FireDaily(c) ==
    /\ alive /\ c \in DOMAIN daily_summary_jobs
    /\ daily_summary_jobs[c].st = "armed"
    /\ lastOp' = [Op("daily_summary", c) EXCEPT
                    !.delivered = (c \in storages),
                    !.lines = IF c \in storages THEN summary_lines(tasks[c]) ELSE <<>>]
    /\ UNCHANGED <<alive, sessions, storages, store, registry, now, sent>>

\* --------------------------------------------------------------- main()
Orders(S) == {o \in [1..Cardinality(S) -> S] : \A a, b \in DOMAIN o : o[a] = o[b] => a = b}

\* main lines 374-385: every tasks_<chat>.json, in the order glob yields them;
\* scanned lists the chats both schedule calls were made for.
RECURSIVE scan(_, _, _)
scan(order, i, S) ==
    IF i > Len(order) \/ S.raised THEN S
    ELSE scan(order, i + 1,
              [reconcile_chat(order[i], disk[order[i]], diskSettings[order[i]], S)
                  EXCEPT !.scanned = Append(@, order[i])])

\* The process stops at any point and main() runs again on the files.
Restart ==
    \E order \in Orders(files) :
        LET S == scan(order, 1, Registry(EmptyMap, EmptyMap, EmptyBag))
        IN /\ alive' = ~S.raised
           /\ storages' = IF S.raised THEN {} ELSE files
           /\ sessions' = [c \in Chats |-> ChatSession]
           /\ tasks' = [c \in Chats |-> IF c \in files /\ ~S.raised THEN disk[c] ELSE <<>>]
           /\ settings' = [c \in Chats |->
                             IF c \in files /\ ~S.raised THEN diskSettings[c] ELSE None]
           /\ reminder_jobs' = IF S.raised THEN EmptyMap ELSE S.rj
           /\ daily_summary_jobs' = IF S.raised THEN EmptyMap ELSE S.dj
           /\ loose' = EmptyBag
           /\ lastOp' = [Op("restart", 0) EXCEPT !.raised = S.raised,
                                                 !.scanned = S.scanned]
           /\ UNCHANGED <<files, disk, diskSettings, nextId, now, sent>>

\* ------------------------------------------------------------------------ Next
\* TaskStorage calls of a turn, with remind_at drawn from RV
TaskOps(RV) ==
    \/ \E c \in Chats : get_chat_state(c)
    \/ \E c \in Chats, r \in RV \cup {None} : add_task(c, r)
    \/ \E c \in Chats, id \in TaskIds : complete_task(c, id)
    \/ \E c \in Chats, id \in TaskIds, r \in RV : set_reminder(c, id, r)
    \/ \E c \in Chats : clear_reminders(c)
    \/ \E c \in Chats, id \in TaskIds : delete_task(c, id)

ReminderOps(track) ==
    \/ \E c \in Chats : Reconcile(c)
    \/ Tick
    \/ \E ref \in Refs : FireReminder(ref, track)
    \/ \E ref \in Refs : ResumeReminder(ref)
    \/ Restart

DigestOps(SV) ==
    \/ \E c \in Chats, v \in SV : set_daily_summary_time(c, v)
    \/ \E c \in Chats : FireDaily(c)

\* The reminder path: tasks with well-formed remind_at, no daily summary set.
Next == TaskOps(IsoVals) \/ ReminderOps(FALSE)

Spec == Init /\ [][Next]_vars

\* The same, remembering every delivery made.
NextSent == TaskOps(IsoVals) \/ ReminderOps(TRUE)

SpecSent == Init /\ [][NextSent]_vars

\* The job queue runs a due job, and the event loop resumes a callback whose
\* send_message has returned; time passes.
FireOf(c, id) == \E ref \in Refs : Key(ref.job) = <<c, id>> /\ FireReminder(ref, FALSE)
ResumeOf(c, id) == \E ref \in Refs : Key(ref.job) = <<c, id>> /\ ResumeReminder(ref)

Fairness ==
    /\ WF_vars(Tick)
    /\ \A c \in 1..NumChats, id \in TaskIds :
           WF_vars(FireOf(c, id)) /\ WF_vars(ResumeOf(c, id))

LiveSpec == Init /\ [][Next]_vars /\ Fairness

\* The reminder path when send_message or the write of the tasks file can fail.
Failures ==
    \/ \E ref \in Refs : SendFails(ref)
    \/ \E ref \in Refs : SaveFails(ref)

NextFail == TaskOps(IsoVals) \/ ReminderOps(FALSE) \/ Failures

SpecFail == Init /\ [][NextFail]_vars

\* The daily summary of one chat: the stored time is written by the tool or
\* straight through TaskStorage, the tasks carry no reminder.
NextDigest ==
    \/ \E c \in Chats : get_chat_state(c)
    \/ \E c \in Chats : add_task(c, None)
    \/ DigestOps(SummaryVals \cup {None})
    \/ \E c \in Chats, input \in ToolInputs : set_daily_summary(c, input)
    \/ \E c \in Chats : Reconcile(c)
    \/ Restart

SpecDigest == Init /\ [][NextDigest]_vars

\* Several chats, some holding a remind_at or a daily_summary_time that does
\* not parse, and the startup scan over their files.
NextScan ==
    \/ \E c \in Chats : get_chat_state(c)
    \/ \E c \in Chats, r \in {"T1", "bad"} : add_task(c, r)
    \/ \E c \in Chats, v \in {"09:30", "25:00", "0930"} : set_daily_summary_time(c, v)
    \/ \E c \in Chats : Reconcile(c)
    \/ Restart

SpecScan == InitOver(1..NumScan) /\ [][NextScan]_vars

\* One chat whose reminders are re-timed and whose daily summary is switched
\* while timers are queued or firing.
NextCancel ==
    \/ \E c \in Chats : get_chat_state(c)
    \/ \E c \in Chats : add_task(c, "T1")
    \/ \E c \in Chats, id \in TaskIds, r \in IsoVals : set_reminder(c, id, r)
    \/ DigestOps({"09:30", "18:00", None})
    \/ \E c \in Chats : Reconcile(c)
    \/ \E ref \in Refs : FireReminder(ref, FALSE)
    \/ \E ref \in Refs : ResumeReminder(ref)

SpecCancel == Init /\ [][NextCancel]_vars

\* Every TaskStorage mutation, from the tools and from the reminder callback,
\* with restarts in between.
NextStore ==
    \/ TaskOps(IsoVals)
    \/ DigestOps({"09:30", None})
    \/ \E c \in Chats : Reconcile(c)
    \/ \E ref \in Refs : FireReminder(ref, FALSE)
    \/ \E ref \in Refs : ResumeReminder(ref)
    \/ Restart

SpecStore == Init /\ [][NextStore]_vars

\* Two chats whose reminders and daily summaries are armed and fire side by side.
NextChats ==
    \/ \E c \in Chats : get_chat_state(c)
    \/ \E c \in Chats : add_task(c, "T1")
    \/ \E c \in Chats, id \in TaskIds, r \in IsoVals : set_reminder(c, id, r)
    \/ \E c \in Chats, v \in {"09:30", None} : set_daily_summary_time(c, v)
    \/ \E c \in Chats : Reconcile(c)
    \/ \E ref \in Refs : FireReminder(ref, FALSE)
    \/ \E ref \in Refs : ResumeReminder(ref)
    \/ \E c \in Chats : FireDaily(c)

SpecChats == InitOver(1..NumScan) /\ [][NextChats]_vars

\* Tasks of a digest at most
MaxDigest == 3

\* The task lists the store can hold: ids in insertion order, the priorities
\* the add_task tool stores, pending or completed
TaskLists ==
    UNION {{[i \in 1..n |-> [new_task(i, None) EXCEPT !.priority = pr[i], !.status = st[i]]] :
               pr \in [1..n -> {"high", "medium", "low"}],
               st \in [1..n -> {"pending", "completed"}]} : n \in 0..MaxDigest}

\* One chat with a saved task list and its daily summary armed at 09:30
InitContent ==
    \E ts \in TaskLists :
        /\ alive = TRUE
        /\ storages = {1}
        /\ sessions = [c \in {1} |-> ChatSession]
        /\ tasks = [c \in {1} |-> ts]
        /\ settings = [c \in {1} |-> "09:30"]
        /\ files = {1}
        /\ disk = [c \in {1} |-> ts]
        /\ diskSettings = [c \in {1} |-> "09:30"]
        /\ nextId = Len(ts) + 1
        /\ reminder_jobs = EmptyMap
        /\ daily_summary_jobs = (1 :> run_daily(1, HM("09:30")))
        /\ loose = EmptyBag
        /\ now = 0
        /\ sent = {}
        /\ lastOp = Op("init", 0)

\* The daily summary fires while tasks get completed.
NextContent ==
    \/ \E c \in Chats : FireDaily(c)
    \/ \E c \in Chats, id \in 1..MaxDigest : complete_task(c, id)

SpecContent == InitContent /\ [][NextContent]_vars

\* Turns of one chat: store operations happen inside ask, the reconcile
\* follows the turn.
NextTurns ==
    \/ \E c \in Chats : get_chat_state(c)
    \/ \E c \in Chats : StartTurn(c)
    \/ \E c \in Chats : InTurn(c) /\ add_task(c, "T1")
    \/ \E c \in Chats, id \in TaskIds : InTurn(c) /\ complete_task(c, id)
    \/ \E c \in Chats, id \in TaskIds, r \in IsoVals : InTurn(c) /\ set_reminder(c, id, r)
    \/ \E c \in Chats, id \in TaskIds : InTurn(c) /\ delete_task(c, id)
    \/ \E c \in Chats, v \in {"09:30", None} : InTurn(c) /\ set_daily_summary_time(c, v)
    \/ \E c \in Chats : EndTurn(c)
    \/ \E ref \in Refs : FireReminder(ref, FALSE)
    \/ \E ref \in Refs : ResumeReminder(ref)

SpecTurns == Init /\ [][NextTurns]_vars

\* ====================================================================== claims
TaskOf(c, id) == tasks[c][Index(tasks[c], id)]
HasTask(c, id) == c \in Chats /\ Index(tasks[c], id) # 0

\* The glossary's eligible task whose remind_at parses
Eligible(t) ==
    t.status = "pending" /\ t.remind_at # None /\ t.reminded_at = None /\ IsIso(t.remind_at)

\* reminder_jobs holds, for task t of chat c, a job for t's remind_at whose
\* callback has not run to its end and that was not cancelled
Armed(c, t) ==
    /\ <<c, t.id>> \in DOMAIN reminder_jobs
    /\ Live(reminder_jobs[<<c, t.id>>])
    /\ reminder_jobs[<<c, t.id>>].remind_at = t.remind_at

\* C1: right after schedule_pending_reminders(chat) returns, every eligible task
\* of the chat has in reminder_jobs a live timer armed for its current remind_at.
\* (A job whose callback is still suspended at send_message counts as live.)
C1_ReconcilePost ==
    lastOp.op = "reconcile" =>
        \A i \in 1..Len(tasks[lastOp.chat]) :
            Eligible(tasks[lastOp.chat][i]) => Armed(lastOp.chat, tasks[lastOp.chat][i])

\* C2: for a task and a fixed remind_at value the reminder is delivered at most
\* once, whatever store operations, reconciles, fires and restarts happen: no
\* delivery is made for a (task, remind_at) that a delivery was already made for.
C2_AtMostOnce == ~(lastOp.op = "fire" /\ lastOp.delivered /\ lastOp.twice)

\* C3: a task that is eligible when a reconcile of its chat returns, and is not
\* edited, completed, deleted or cleared afterwards, eventually has its reminder
\* delivered and reminded_at set (timers that are due do fire; a restart of the
\* process ends the obligation, the startup scan takes it over).
C3_NoMissedReminder ==
    \A c \in 1..NumChats, id \in TaskIds, r \in IsoVals :
        (/\ lastOp.op = "reconcile" /\ lastOp.chat = c
         /\ HasTask(c, id) /\ Eligible(TaskOf(c, id)) /\ TaskOf(c, id).remind_at = r)
        ~> (\/ lastOp.op = "restart"
            \/ ~HasTask(c, id)
            \/ TaskOf(c, id).status # "pending"
            \/ TaskOf(c, id).remind_at # r
            \/ TaskOf(c, id).reminded_at # None)

\* A reminder for task id of chat c and value r has just been delivered
Delivered(c, id, r) ==
    /\ lastOp.op = "fire" /\ lastOp.delivered
    /\ lastOp.chat = c /\ lastOp.task = id /\ lastOp.value = r

\* The reconcile that has just returned cancelled the queued job of (c, id) and
\* armed one for r
Rearmed(c, id, r) ==
    /\ lastOp.op = "reconcile" /\ lastOp.chat = c
    /\ <<c, id>> \in lastOp.cancelled /\ <<c, id>> \in lastOp.armed
    /\ reminder_jobs[<<c, id>>].remind_at = r /\ reminder_jobs[<<c, id>>].st = "armed"

\* C4: when a pending task has a queued timer for R1 and set_reminder changes
\* remind_at to R2 before it fires, the next reconcile cancels the R1 timer and
\* arms one for R2, and the reminder for R2 is then delivered, unless the
\* store is written again or the process restarts first.
C4_EditBeforeFire ==
    /\ [][\A c \in 1..NumChats, id \in TaskIds :
            (/\ Reconcile(c)
             /\ HasTask(c, id) /\ Eligible(TaskOf(c, id))
             /\ <<c, id>> \in DOMAIN reminder_jobs
             /\ reminder_jobs[<<c, id>>].st = "armed"
             /\ reminder_jobs[<<c, id>>].remind_at # TaskOf(c, id).remind_at)
            => Rearmed(c, id, TaskOf(c, id).remind_at)']_vars
    /\ \A c \in 1..NumChats, id \in TaskIds, r \in IsoVals :
            Rearmed(c, id, r)
            ~> (\/ Delivered(c, id, r)
                \/ lastOp.op = "restart"
                \/ lastOp.op = "store")

\* C5: after any reconcile of a chat, reminder_jobs holds no entry of that chat
\* for a task that does not exist or is not eligible (completed, reminder
\* cleared, already reminded): the sweep has cancelled and removed it.
C5_SweepCorrect ==
    lastOp.op = "reconcile" =>
        \A key \in DOMAIN reminder_jobs :
            key[1] = lastOp.chat =>
                HasTask(key[1], key[2]) /\ Eligible(TaskOf(key[1], key[2]))

\* C6: a reminder is delivered only for a task that exists, is not completed
\* and has a remind_at: never for a completed or deleted task, and never for a
\* cleared one before a later set_reminder, whatever timers were armed before.
C6_NoDeliveryRetired ==
    (lastOp.op = "fire" /\ lastOp.delivered) =>
        /\ HasTask(lastOp.chat, lastOp.task)
        /\ TaskOf(lastOp.chat, lastOp.task).status # "completed"
        /\ TaskOf(lastOp.chat, lastOp.task).remind_at # None

\* A timer armed earlier has fired for a task since completed, deleted or cleared
C6_RetiredFire ==
    /\ lastOp.op = "fire" /\ ~lastOp.delivered
    /\ \/ ~HasTask(lastOp.chat, lastOp.task)
       \/ TaskOf(lastOp.chat, lastOp.task).status = "completed"
       \/ TaskOf(lastOp.chat, lastOp.task).remind_at = None

\* A task of chat c that is persisted, pending, not reminded and overdue
Overdue(c, t) == Eligible(t) /\ fromisoformat(t.remind_at) < now

\* C7: after the startup scan, every persisted pending task whose remind_at is
\* in the past and whose reminded_at is unset has in reminder_jobs a queued
\* timer for its remind_at with delay exactly 0.
C7_OverdueAfterRestart ==
    (lastOp.op = "restart" /\ alive) =>
        \A c \in files : \A i \in 1..Len(disk[c]) :
            Overdue(c, disk[c][i]) =>
                /\ <<c, disk[c][i].id>> \in DOMAIN reminder_jobs
                /\ reminder_jobs[<<c, disk[c][i].id>>].st = "armed"
                /\ reminder_jobs[<<c, disk[c][i].id>>].remind_at = disk[c][i].remind_at
                /\ reminder_jobs[<<c, disk[c][i].id>>].when = 0

\* The process has just started over a store that holds an overdue task
C7_OverdueRecovered ==
    /\ lastOp.op = "restart" /\ alive
    /\ \E c \in files : \E i \in 1..Len(disk[c]) :
           /\ Overdue(c, disk[c][i])
           /\ <<c, disk[c][i].id>> \in DOMAIN reminder_jobs
           /\ reminder_jobs[<<c, disk[c][i].id>>].when = 0

\* What a registry records: the remind_at each key of chat c honours, and the
\* time of day of the chat's daily summary
Honoured(rj, c) == {<<k, rj[k].remind_at>> : k \in {x \in DOMAIN rj : x[1] = c}}
Digest(dj, c) == IF c \in DOMAIN dj THEN <<dj[c].time>> ELSE <<>>

\* C8: the registry the startup scan would build from the persisted store alone
\* records, for a chat that has just been reconciled, the same keys with the
\* same remind_at and the same daily summary as the registry held by the
\* running process.
C8_RecoveryEquivalence ==
    lastOp.op = "reconcile" =>
        \A order \in Orders(files) :
            LET S == scan(order, 1, Registry(EmptyMap, EmptyMap, EmptyBag))
            IN /\ Honoured(S.rj, lastOp.chat) = Honoured(reminder_jobs, lastOp.chat)
               /\ Digest(S.dj, lastOp.chat) = Digest(daily_summary_jobs, lastOp.chat)

\* C9: a reconcile that directly follows a reconcile of the same chat leaves
\* reminder_jobs as it is, with the same job handles: it cancels no timer and
\* arms no timer.
C9_IdempotentReconcile ==
    [][\A c \in 1..NumChats :
          (Reconcile(c) /\ lastOp.op = "reconcile" /\ lastOp.chat = c)
          => /\ reminder_jobs' = reminder_jobs
             /\ loose' = loose
             /\ lastOp'.armed = {} /\ lastOp'.cancelled = {}]_vars

\* A second reconcile in a row has run over a registry that holds a queued timer
C9_ReconciledAgain ==
    /\ lastOp.op = "reconcile" /\ lastOp.again
    /\ \E key \in DOMAIN reminder_jobs :
           key[1] = lastOp.chat /\ reminder_jobs[key].st = "armed"

\* The task of a job for (c, id, r) is gone, completed, reminded or re-timed
NoLongerDue(c, id, r) ==
    \/ ~HasTask(c, id)
    \/ TaskOf(c, id).status = "completed"
    \/ TaskOf(c, id).reminded_at # None
    \/ TaskOf(c, id).remind_at # r

\* C10: when a reminder timer fires and its task no longer exists, is
\* completed, already has reminded_at set or has another remind_at than the
\* timer was armed with, nothing is delivered and the store stays as it is.
C10_StaleFireNoOp ==
    [][(lastOp'.op = "fire" /\ NoLongerDue(lastOp'.chat, lastOp'.task, lastOp'.value))
       => (~lastOp'.delivered /\ UNCHANGED <<store, sent>>)]_vars

\* A timer has fired for a task whose remind_at was edited after it was armed
C10_EditedFire ==
    /\ lastOp.op = "fire" /\ ~lastOp.delivered
    /\ HasTask(lastOp.chat, lastOp.task)
    /\ TaskOf(lastOp.chat, lastOp.task).status = "pending"
    /\ TaskOf(lastOp.chat, lastOp.task).reminded_at = None
    /\ TaskOf(lastOp.chat, lastOp.task).remind_at \in IsoVals \ {lastOp.value}

\* A job for key is suspended in its callback, in the registry or out of it
InFlight(key) ==
    \E ref \in Refs : Key(ref.job) = key /\ ref.job.st = "running"

\* C11: a fire that passes the re-validation delivers first: reminded_at is
\* still unset while the callback is suspended at send_message. When the
\* callback then finishes, the task's reminded_at is set in memory and on disk
\* and reminder_jobs has no entry for (chat, task id).
C11_SuccessfulFire ==
    /\ (lastOp.op = "fire" /\ lastOp.delivered) =>
           /\ InFlight(<<lastOp.chat, lastOp.task>>)
           /\ HasTask(lastOp.chat, lastOp.task)
           /\ TaskOf(lastOp.chat, lastOp.task).reminded_at = None
    /\ lastOp.op = "resume" =>
           /\ <<lastOp.chat, lastOp.task>> \notin DOMAIN reminder_jobs
           /\ HasTask(lastOp.chat, lastOp.task) =>
                  /\ TaskOf(lastOp.chat, lastOp.task).reminded_at # None
                  /\ disk[lastOp.chat] = tasks[lastOp.chat]

\* A callback has run to its end for a task that is still in the store
C11_Fired ==
    /\ lastOp.op = "resume"
    /\ HasTask(lastOp.chat, lastOp.task)
    /\ TaskOf(lastOp.chat, lastOp.task).remind_at = lastOp.value
    /\ TaskOf(lastOp.chat, lastOp.task).reminded_at = Stamp

\* C12: when set_reminder gave the task a new remind_at and the reconcile armed
\* a timer for it while the callback for the old value was suspended at
\* send_message, the end of that callback leaves reminded_at unset and leaves
\* the timer for the new value in reminder_jobs.
C12_InFlightReschedule ==
    [][\A ref \in Refs :
          LET d == ref.job
              key == Key(ref.job)
          IN (/\ ResumeReminder(ref)
              /\ HasTask(d.chat_id, d.task_id)
              /\ Eligible(TaskOf(d.chat_id, d.task_id))
              /\ TaskOf(d.chat_id, d.task_id).remind_at # d.remind_at
              /\ key \in DOMAIN reminder_jobs
              /\ reminder_jobs[key].st = "armed"
              /\ reminder_jobs[key].remind_at = TaskOf(d.chat_id, d.task_id).remind_at)
             => /\ key \in DOMAIN reminder_jobs'
                /\ reminder_jobs'[key] = reminder_jobs[key]
                /\ tasks'[d.chat_id][Index(tasks[d.chat_id], d.task_id)].reminded_at = None]_vars

\* The HH:MM values and the time of day each stands for
ValidTimes == {"09:30", "18:00"}
TimeOfDay(v) == IF v = "09:30" THEN <<9, 30>> ELSE <<18, 0>>

\* How many daily summary timers of chat c are in the job queue
DigestTimers(c) ==
    LET held == IF c \in DOMAIN daily_summary_jobs /\ Live(daily_summary_jobs[c])
                THEN 1 ELSE 0
        left == {j \in BagToSet(loose) : j.kind = "daily" /\ j.chat_id = c /\ Live(j)}
    IN held + BagCardinality([j \in left |-> loose[j]])

\* C13: after schedule_daily_summary(chat) returns, daily_summary_jobs holds
\* exactly one queued recurring timer for the chat, for the stored time of day,
\* when daily_summary_time is a set HH:MM value, and holds no entry when it is
\* unset; in both cases no earlier daily timer of the chat is left in the queue.
C13_DigestPost ==
    lastOp.op = "reconcile" =>
        LET c == lastOp.chat
        IN /\ settings[c] = None =>
                  c \notin DOMAIN daily_summary_jobs /\ DigestTimers(c) = 0
           /\ settings[c] \in ValidTimes =>
                  /\ c \in DOMAIN daily_summary_jobs
                  /\ daily_summary_jobs[c].st = "armed"
                  /\ daily_summary_jobs[c].time = TimeOfDay(settings[c])
                  /\ DigestTimers(c) = 1

\* A reconcile has replaced the chat's daily timer by one for the stored time
C13_DigestReplaced ==
    /\ lastOp.op = "reconcile" /\ <<lastOp.chat, 0>> \in lastOp.cancelled
    /\ settings[lastOp.chat] \in ValidTimes
    /\ lastOp.chat \in DOMAIN daily_summary_jobs

\* C14: when a daily timer is queued for a chat, a reconcile after the time was
\* set to off leaves no daily timer of the chat, and a reconcile after it was
\* set to another valid value leaves exactly one, for that value.
C14_DigestToggling ==
    [][\A c \in 1..NumChats :
          (/\ Reconcile(c)
           /\ c \in DOMAIN daily_summary_jobs
           /\ daily_summary_jobs[c].st = "armed")
          => /\ settings[c] = None => DigestTimers(c)' = 0
             /\ (/\ settings[c] \in ValidTimes
                 /\ TimeOfDay(settings[c]) # daily_summary_jobs[c].time)
                => /\ DigestTimers(c)' = 1
                   /\ c \in DOMAIN daily_summary_jobs'
                   /\ daily_summary_jobs'[c].time = TimeOfDay(settings[c])]_vars

\* A reconcile has cancelled the chat's daily timer after the time was set to off
C14_ToggledOff ==
    /\ lastOp.op = "reconcile" /\ <<lastOp.chat, 0>> \in lastOp.cancelled
    /\ settings[lastOp.chat] = None
    /\ lastOp.chat \notin DOMAIN daily_summary_jobs

\* C15: when the stored daily_summary_time is not a valid HH:MM value ("9:3",
\* "0930", "25:00"), schedule_daily_summary leaves daily_summary_jobs, and with
\* it the chat's queued daily timer, as they are: no timer is installed for
\* another reading of the value and none is cancelled.
C15_InvalidDigestTime ==
    [][\A c \in 1..NumChats :
          (Reconcile(c) /\ settings[c] \in SummaryVals \ ValidTimes)
          => daily_summary_jobs' = daily_summary_jobs]_vars

\* C16: when send_message fails during a fire, the task's reminded_at is set
\* in memory and on disk and reminder_jobs has no entry for (chat, task id).
C16_SendFailureCommits ==
    lastOp.op = "send_failed" =>
        /\ <<lastOp.chat, lastOp.task>> \notin DOMAIN reminder_jobs
        /\ HasTask(lastOp.chat, lastOp.task) =>
               /\ TaskOf(lastOp.chat, lastOp.task).reminded_at # None
               /\ disk[lastOp.chat] = tasks[lastOp.chat]

\* C17: when the save of mark_reminded fails during a fire, reminder_jobs has
\* no entry for the timer's (chat, task id) afterwards.
C17_SaveFailureUnregisters ==
    lastOp.op = "save_failed" =>
        <<lastOp.chat, lastOp.task>> \notin DOMAIN reminder_jobs

\* The files of chat c hold nothing that does not parse
CleanChat(c) ==
    /\ \A i \in 1..Len(disk[c]) : disk[c][i].remind_at \in IsoVals \cup {None}
    /\ diskSettings[c] \in ValidTimes \cup {None}

\* Every eligible task of chat c has its timer and the chat its daily timer
TimersArmed(c) ==
    /\ \A i \in 1..Len(disk[c]) :
           Eligible(disk[c][i]) =>
               /\ <<c, disk[c][i].id>> \in DOMAIN reminder_jobs
               /\ reminder_jobs[<<c, disk[c][i].id>>].st = "armed"
    /\ diskSettings[c] \in ValidTimes =>
           /\ c \in DOMAIN daily_summary_jobs
           /\ daily_summary_jobs[c].st = "armed"

\* C18: after the startup scan, and after a reconcile of the chat, a chat whose
\* own files hold only values that parse has its reminder timers and its daily
\* timer armed, whatever malformed remind_at or invalid daily_summary_time the
\* other chats hold.
C18_CrossChatIsolation ==
    /\ lastOp.op = "restart" => \A c \in files : CleanChat(c) => TimersArmed(c)
    /\ (lastOp.op = "reconcile" /\ lastOp.chat \in files /\ CleanChat(lastOp.chat))
       => TimersArmed(lastOp.chat)

\* The claim's reading of an argument: two digits, colon, two digits, in range
WellFormedTime(v) ==
    /\ Len(v) = 5 /\ v[3] = ":"
    /\ \A i \in {1, 2, 4, 5} : v[i] \in Digits
    /\ 10 * DigitOf(v[1]) + DigitOf(v[2]) <= 23
    /\ 10 * DigitOf(v[4]) + DigitOf(v[5]) <= 59

\* C19: the set_daily_summary tool, given (after trimming and lower-casing) a
\* two-digit HH:MM in range, stores exactly that string and returns ok; given
\* off, disable, disabled or none it removes the setting and returns ok; given
\* anything else it returns an error and leaves the setting as it was.
C19_SetDailySummaryTool ==
    [][\A c \in 1..NumChats, input \in ToolInputs :
          set_daily_summary(c, input) =>
              LET v == lower(strip(input))
              IN IF WellFormedTime(v)
                 THEN lastOp'.ok /\ settings'[c] = Text(v) /\ diskSettings'[c] = Text(v)
                 ELSE IF v \in OffWords
                 THEN lastOp'.ok /\ settings'[c] = None /\ diskSettings'[c] = None
                 ELSE ~lastOp'.ok /\ UNCHANGED <<settings, diskSettings>>]_vars

\* How many reminder timers for key are queued and have not fired
QueuedTimers(key) ==
    LET held == IF key \in DOMAIN reminder_jobs /\ reminder_jobs[key].st = "armed"
                THEN 1 ELSE 0
        left == {j \in BagToSet(loose) :
                    j.kind = "reminder" /\ Key(j) = key /\ j.st = "armed"}
    IN held + BagCardinality([j \in left |-> loose[j]])

\* C20: in every reachable state at most one reminder timer per (chat, task
\* id) is queued (armed, not cancelled, not fired); and when a reconcile stores
\* a new job under a key that held a queued one, that one has left the queue.
C20_OneTimerPerTask ==
    /\ [](\A c \in 1..NumChats, id \in TaskIds : QueuedTimers(<<c, id>>) <= 1)
    /\ [][\A c \in 1..NumChats :
             Reconcile(c) =>
                 \A key \in lastOp'.armed \cap DOMAIN reminder_jobs :
                     reminder_jobs[key].st = "armed" =>
                         /\ key \in lastOp'.cancelled
                         /\ reminder_jobs[key] \notin BagToSet(loose')]_vars

\* No reminder callback is suspended at its await
NoneInFlight ==
    \A ref \in Refs : ref.job.st # "running"

\* C21: in every state outside a running callback, each entry of reminder_jobs
\* is a queued timer (armed, not fired, not cancelled) and each queued reminder
\* timer is the job reminder_jobs holds under its own (chat, task id): a timer
\* whose fire was a no-op is not left in reminder_jobs, and no fire takes the
\* entry of a newer timer away.
C21_RegistryIsLive ==
    NoneInFlight =>
        /\ \A key \in DOMAIN reminder_jobs : reminder_jobs[key].st = "armed"
        /\ \A j \in BagToSet(loose) : ~(j.kind = "reminder" /\ j.st = "armed")

\* C22: a timer a reconcile has cancelled is out of the job queue when the
\* reconcile returns, so its callback cannot start and deliver afterwards: of a
\* cancelled reminder job no further copy is queued, and a cancelled daily job
\* is not queued at all.
C22_CancelIsEffective ==
    [][\A c \in 1..NumChats :
          Reconcile(c) =>
              /\ \A key \in lastOp'.cancelled :
                     key[2] # 0 =>
                         CopiesIn(reminder_jobs[key], loose')
                             = CopiesIn(reminder_jobs[key], loose)
              /\ <<c, 0>> \in lastOp'.cancelled =>
                     CopiesIn(daily_summary_jobs[c], loose') = 0]_vars

\* A reconcile has cancelled a queued reminder timer and the chat's daily timer
C22_BothCancelled ==
    /\ lastOp.op = "reconcile"
    /\ <<lastOp.chat, 0>> \in lastOp.cancelled
    /\ \E key \in lastOp.cancelled : key[2] # 0

\* C24: at most one handler of a chat is inside the query/receive section of
\* ChatSession.ask at any time, and the reconcile that ends a turn reads a task
\* list and a setting that completed store operations left, the same as the
\* files hold.
C24_TurnSerialization ==
    /\ \A c \in Chats :
           /\ sessions[c].asking <= 1
           /\ sessions[c].locked <=> sessions[c].asking = 1
           /\ sessions[c].waiting > 0 => sessions[c].locked
    /\ lastOp.op = "reconcile" =>
           /\ tasks[lastOp.chat] = disk[lastOp.chat]
           /\ settings[lastOp.chat] = diskSettings[lastOp.chat]

\* A second handler waited at the lock while the first one changed the store,
\* and the first turn has ended with its reconcile.
C24_SecondWaited ==
    /\ lastOp.op = "reconcile"
    /\ sessions[lastOp.chat].asking = 1
    /\ sessions[lastOp.chat].waiting = 0
    /\ lastOp.armed # {}

\* The task's remind_at is set and fromisoformat rejects it
Malformed(t) == t.remind_at # None /\ ~IsIso(t.remind_at)

\* C25: a reconcile of a chat with a task whose remind_at does not parse arms no
\* timer for that task and registers none, does not raise in
\* schedule_pending_reminders (a raise comes from the daily summary time only),
\* and arms a timer for every eligible task of the chat, before or after the
\* malformed one in the list.
C25_MalformedSkipped ==
    lastOp.op = "reconcile" =>
        LET c == lastOp.chat
        IN (\E i \in DOMAIN tasks[c] : Malformed(tasks[c][i])) =>
               /\ \A i \in DOMAIN tasks[c] :
                      LET t == tasks[c][i]
                      IN /\ Malformed(t) =>
                                /\ <<c, t.id>> \notin lastOp.armed
                                /\ <<c, t.id>> \notin DOMAIN reminder_jobs
                         /\ Eligible(t) =>
                                /\ Armed(c, t)
                                /\ reminder_jobs[<<c, t.id>>].st = "armed"
               /\ lastOp.raised => settings[c] = "25:00"

\* A reconcile met a malformed task first and armed the eligible one after it
C25_ArmedAfterMalformed ==
    /\ lastOp.op = "reconcile"
    /\ Len(tasks[lastOp.chat]) = 2
    /\ Malformed(tasks[lastOp.chat][1])
    /\ Eligible(tasks[lastOp.chat][2])
    /\ lastOp.armed = {<<lastOp.chat, tasks[lastOp.chat][2].id>>}

\* The step just taken belongs to the scheduling engine: a reconcile or a
\* timer callback
EngineOps == {"reconcile", "fire", "resume", "daily_summary"}

\* The registry entries and the store of chat b
OfChat(b) ==
    <<[key \in {k \in DOMAIN reminder_jobs : k[1] = b} |-> reminder_jobs[key]],
      IF b \in DOMAIN daily_summary_jobs THEN <<daily_summary_jobs[b]>> ELSE <<>>,
      tasks[b], settings[b], disk[b], diskSettings[b], b \in files, b \in storages>>

\* C26: a reconcile or a timer fire of chat A leaves every reminder_jobs entry
\* keyed (B, *), the daily_summary_jobs entry and the task store of every other
\* chat B as they were.
C26_ChatIndependence ==
    [][lastOp'.op \in EngineOps =>
          \A b \in Chats \ {lastOp'.chat} : OfChat(b)' = OfChat(b)]_vars

\* A reminder of one chat has fired and marked its task while another chat
\* holds a registered reminder timer and a daily timer
C26_FiredBesideOther ==
    /\ lastOp.op = "resume"
    /\ \E b \in Chats \ {lastOp.chat} :
           /\ b \in DOMAIN daily_summary_jobs
           /\ \E key \in DOMAIN reminder_jobs : key[1] = b

\* Task lists that differ in the reminded_at of their tasks at most
SameButRemindedAt(ts, us) ==
    /\ Len(ts) = Len(us)
    /\ \A i \in DOMAIN ts : [ts[i] EXCEPT !.reminded_at = None]
                              = [us[i] EXCEPT !.reminded_at = None]

\* C27: schedule_pending_reminders and schedule_daily_summary leave every task
\* record and the chat settings unchanged, a daily summary fire too; a reminder
\* fire changes no store field but reminded_at, and no other step of the
\* scheduling engine writes reminded_at.
C27_ReconcileReadsOnly ==
    [][/\ lastOp'.op \in {"reconcile", "daily_summary", "fire"} => store' = store
       /\ lastOp'.op = "resume" =>
              /\ \A c \in Chats : SameButRemindedAt(tasks[c], tasks'[c])
              /\ \A c \in Chats : SameButRemindedAt(disk[c], disk'[c])
              /\ UNCHANGED <<settings, diskSettings, nextId>>]_vars

\* A reminder fire has written reminded_at into the store
C27_MarkedByFire ==
    /\ lastOp.op = "resume"
    /\ \E i \in DOMAIN tasks[lastOp.chat] :
           /\ tasks[lastOp.chat][i].id = lastOp.task
           /\ tasks[lastOp.chat][i].reminded_at # None
           /\ tasks[lastOp.chat][i].remind_at # None
    /\ disk[lastOp.chat] = tasks[lastOp.chat]

\* C28: a daily summary fire delivers one digest and leaves the task store,
\* reminder_jobs and daily_summary_jobs unchanged; the chat's timer stays
\* registered and armed, so it can fire again, and only a reconcile or a restart
\* takes a registered daily timer away.
C28_DigestFireRecurring ==
    [][/\ lastOp'.op = "daily_summary" =>
              /\ lastOp'.delivered
              /\ UNCHANGED <<store, registry>>
              /\ lastOp'.chat \in DOMAIN daily_summary_jobs'
              /\ daily_summary_jobs'[lastOp'.chat].st = "armed"
       /\ \A c \in Chats :
              (c \in DOMAIN daily_summary_jobs /\ c \notin DOMAIN daily_summary_jobs')
                  => lastOp'.op \in {"reconcile", "restart"}]_vars

\* The daily summary has fired and its timer is still registered and armed
C28_FiredAndArmed ==
    /\ lastOp.op = "daily_summary"
    /\ lastOp.delivered
    /\ lastOp.chat \in DOMAIN daily_summary_jobs
    /\ daily_summary_jobs[lastOp.chat].st = "armed"

\* The tasks the digest lists, in the order of its lines
Listed == [i \in 1..(Len(lastOp.lines) - 2) |-> lastOp.lines[i + 2][2]]

\* C29: the digest built at fire time lists exactly the tasks that are pending
\* in the store at that moment, each once, high before medium before low, tasks
\* of equal priority in their insertion order; completed tasks do not appear.
C29_DigestContent ==
    (lastOp.op = "daily_summary" /\ lastOp.delivered) =>
        LET ts == tasks[lastOp.chat]
        IN /\ \A i \in DOMAIN ts :
                  Cardinality({k \in DOMAIN Listed : Listed[k] = ts[i].id})
                      = IF ts[i].status = "pending" THEN 1 ELSE 0
           /\ \A k \in DOMAIN Listed : Index(ts, Listed[k]) # 0
           /\ \A k, l \in DOMAIN Listed :
                  k < l =>
                      LET a == ts[Index(ts, Listed[k])]
                          b == ts[Index(ts, Listed[l])]
                      IN \/ priority_order(a.priority) < priority_order(b.priority)
                         \/ /\ a.priority = b.priority
                            /\ Index(ts, a.id) < Index(ts, b.id)

\* A digest of a list in which a low task precedes a high one and a completed
\* task sits between pending ones
C29_Reordered ==
    /\ lastOp.op = "daily_summary"
    /\ Len(tasks[lastOp.chat]) = 3
    /\ tasks[lastOp.chat][1].priority = "low"
    /\ tasks[lastOp.chat][1].status = "pending"
    /\ tasks[lastOp.chat][2].status = "completed"
    /\ tasks[lastOp.chat][3].priority = "high"
    /\ tasks[lastOp.chat][3].status = "pending"
    /\ Listed = <<3, 1>>

\* C30: the startup scan starts from an empty registry and makes the two
\* schedule calls exactly once for every chat whose tasks file exists: no such
\* chat is skipped, none is scanned twice, and the registry holds afterwards
\* nothing but timers the scan armed from the files.
C30_StartupScanOnce ==
    lastOp.op = "restart" =>
        /\ \A c \in files :
               Cardinality({i \in DOMAIN lastOp.scanned : lastOp.scanned[i] = c}) = 1
        /\ \A i \in DOMAIN lastOp.scanned : lastOp.scanned[i] \in files
        /\ loose = EmptyBag
        /\ \A key \in DOMAIN reminder_jobs :
               /\ key[1] \in files
               /\ \E i \in DOMAIN disk[key[1]] :
                      /\ disk[key[1]][i].id = key[2]
                      /\ Eligible(disk[key[1]][i])
        /\ \A c \in DOMAIN daily_summary_jobs : c \in files /\ Truthy(diskSettings[c])

\* What TaskStorage.load and load_settings read for chat c equals what the
\* process holds in memory
Persisted(c) ==
    /\ tasks[c] = IF c \in files THEN disk[c] ELSE <<>>
    /\ settings[c] = diskSettings[c]

\* C31: after every step, in particular after each TaskStorage mutation, the
\* persisted tasks and settings of every chat with a storage equal the ones in
\* memory, and a restart hands every chat it loads the task list and the setting
\* the running process had.
C31_SynchronousPersistence ==
    [][/\ \A c \in storages' : Persisted(c)'
       /\ lastOp'.op = "restart" =>
              \A c \in storages \cap storages' :
                  tasks'[c] = tasks[c] /\ settings'[c] = settings[c]]_vars

\* A restart has reloaded a chat whose task was marked as reminded and whose
\* daily summary time was set
C31_ReloadedAfterMutations ==
    /\ lastOp.op = "restart"
    /\ \E c \in storages :
           /\ settings[c] # None
           /\ \E i \in DOMAIN tasks[c] : tasks[c][i].reminded_at # None

\* The step just taken is the end of a reminder fire for task id of chat c
MarkedBy(c, id) ==
    lastOp'.op = "resume" /\ lastOp'.chat = c /\ lastOp'.task = id

\* C32: a task's reminded_at goes from unset to set only at the end of a
\* successful reminder fire for that task; a fire writes it only while it is
\* unset; and a fire sets it only on a task whose remind_at is still the value
\* that fire delivered.
C32_RemindedAtOnce ==
    [][\A c \in Chats, id \in TaskIds :
          (Index(tasks[c], id) # 0 /\ Index(tasks'[c], id) # 0) =>
              LET old == tasks[c][Index(tasks[c], id)]
                  new == tasks'[c][Index(tasks'[c], id)]
              IN /\ (old.reminded_at = None /\ new.reminded_at # None) => MarkedBy(c, id)
                 /\ MarkedBy(c, id) =>
                        /\ old.reminded_at = None
                        /\ old.remind_at = lastOp'.value]_vars

====
